---- MODULE Spec2Model ----
(***************************************************************************)
(* Model of MCPMarketingCollection (mcp_marketing_collection.py): the      *)
(* GraphQL bridge (_fetch_graphql_schema, _execute_graphql_query) and the  *)
(* six tool handlers built on it.  A tool invocation is one action.  The   *)
(* remote backing service is the store (places, contacts, requests,        *)
(* orders); the only state of the process itself is the schema cache and   *)
(* endpoint_id.  `last` is the observation of the latest invocation: its   *)
(* arguments, the GraphQL calls it made, and how it ended.  `resolving`    *)
(* is where each thread stands that resolves a schema on its own, one      *)
(* statement of _fetch_graphql_schema at a time.                           *)
(*                                                                         *)
(* Python dicts are functions with a partial domain (a missing key is a    *)
(* key outside DOMAIN).  Strings of the place tools are TLA+ strings;      *)
(* strings of the contact tools are sequences of characters, because       *)
(* data_collect builds strings with ", ".join and the draft order searches *)
(* them for digits.                                                        *)
(***************************************************************************)
EXTENDS Integers, Sequences, FiniteSets, TLC

VARIABLES places, contacts, requests, orders, schemas, endpoint_id, setting,
          last, resolving

vars == <<places, contacts, requests, orders, schemas, endpoint_id, setting,
          last, resolving>>

\* Python's None where the other values are TLA+ strings (also how an
\* f-string prints it).
None == "None"

\* Python's None where the other values are character sequences.
NoneS == <<"None">>

\* The empty dict.
EmptyDict == [k \in {} |-> None]

\* d.get(k)
Get(d, k) == IF k \in DOMAIN d THEN d[k] ELSE None

\* d.get(k, default)
GetD(d, k, default) == IF k \in DOMAIN d THEN d[k] ELSE default

\* d.get(k) of a dict whose strings are character sequences
GetS(d, k) == IF k \in DOMAIN d THEN d[k] ELSE NoneS

\* dict.update: the keys of u override those of d.
Update(d, u) == u @@ d

\* The argument keys whose values are numbers (inputSchema "type": "number").
NumberKeys == {"latitude", "longitude"}

\* bool(arguments.get(k)): a missing key, None, "" and 0 are all falsy.
Truthy(arguments, k) ==
    /\ k \in DOMAIN arguments
    /\ IF k \in NumberKeys THEN arguments[k] # 0
                           ELSE arguments[k] \notin {"", None}

---------------------------------------------------------------------------
(* humps.decamelize: every camelCase key becomes snake_case, at every      *)
(* level of nesting; values are untouched.                                 *)

CamelKeys == <<"placeUuid", "businessName", "phoneNumber", "contactUuid",
               "firstName", "lastName", "requestUuid", "updatedBy",
               "requestTitle", "requestDetail">>

SnakeKeys == <<"place_uuid", "business_name", "phone_number", "contact_uuid",
               "first_name", "last_name", "request_uuid", "updated_by",
               "request_title", "request_detail">>

DecamelizeKey(k) ==
    IF \E i \in 1..Len(CamelKeys) : CamelKeys[i] = k
    THEN SnakeKeys[CHOOSE i \in 1..Len(CamelKeys) : CamelKeys[i] = k]
    ELSE k

CamelizeKey(k) ==
    IF \E i \in 1..Len(SnakeKeys) : SnakeKeys[i] = k
    THEN CamelKeys[CHOOSE i \in 1..Len(SnakeKeys) : SnakeKeys[i] = k]
    ELSE k

\* One level: the keys of d renamed.
DecamelizeFlat(d) ==
    [k \in {DecamelizeKey(c) : c \in DOMAIN d} |-> d[CamelizeKey(k)]]

\* The nested dicts of the responses are the "place" of a contact profile.
Decamelize(d) ==
    LET flat == DecamelizeFlat(d)
    IN  [k \in DOMAIN flat |->
            IF k = "place" THEN DecamelizeFlat(flat[k]) ELSE flat[k]]

---------------------------------------------------------------------------
(* sorted() on a list of type names.                                       *)

TypeOrder == <<"a", "b", "c">>

Rank(x) == CHOOSE i \in 1..Len(TypeOrder) : TypeOrder[i] = x

RECURSIVE Insert(_, _)
Insert(x, s) ==
    IF s = <<>> THEN <<x>>
    ELSE IF Rank(x) <= Rank(Head(s)) THEN <<x>> \o s
    ELSE <<Head(s)>> \o Insert(x, Tail(s))

RECURSIVE Sorted(_)
Sorted(s) == IF s = <<>> THEN <<>> ELSE Insert(Head(s), Sorted(Tail(s)))

---------------------------------------------------------------------------
(* The remote backing service, as the handlers see it through GraphQL.     *)
(* Records are stored and returned with camelCase keys.  A place is found  *)
(* by its four location fields, a contact profile by its email.  A         *)
(* mutation that carries the UUID updates the fields it carries, one that  *)
(* does not inserts a record under the next unused UUID.                   *)

\* Python's None where the other values are dicts.
NoneD == [none |-> TRUE]

PlaceUuids == <<"p1", "p2", "p3", "p4">>

ContactUuids == << <<"c", "1">>, <<"c", "2">>, <<"c", "3">>, <<"c", "4">> >>

RequestUuids == <<"r1", "r2", "r3", "r4", "r5", "r6">>

PlaceFields == {"placeUuid", "region", "latitude", "longitude", "address",
                "businessName", "phoneNumber", "website", "types"}

ContactFields == {"contactUuid", "email", "firstName", "lastName", "place",
                  "data"}

\* Bounds on the records the write-only tools may create.
MaxRequests == 2

MaxOrders == 2

\* Bound on the records the service holds in all.
MaxRecords == 3

\* Index of the record with this UUID, 0 when there is none.
IndexOf(records, key, uuid) ==
    IF \E i \in 1..Len(records) : records[i][key] = uuid
    THEN CHOOSE i \in 1..Len(records) : records[i][key] = uuid
    ELSE 0

\* query place(placeUuid)
BackendPlace(ctx, variables) ==
    LET i == IndexOf(ctx.places, "placeUuid", variables.placeUuid)
    IN  [ctx |-> ctx,
         result |-> [place |-> IF i = 0 THEN NoneD ELSE ctx.places[i]]]

\* query placeList(region, latitude, longitude, address)
BackendPlaceList(ctx, variables) ==
    LET hit(p) == /\ p.region = variables.region
                  /\ p.latitude = variables.latitude
                  /\ p.longitude = variables.longitude
                  /\ p.address = variables.address
        found == SelectSeq(ctx.places, hit)
    IN  [ctx |-> ctx,
         result |-> [placeList |-> [total |-> Len(found), placeList |-> found]]]

\* mutation insertUpdatePlace(...)
BackendInsertUpdatePlace(ctx, variables) ==
    LET i == IF "placeUuid" \in DOMAIN variables
             THEN IndexOf(ctx.places, "placeUuid", variables.placeUuid)
             ELSE 0
        uuid == IF i = 0 THEN PlaceUuids[Len(ctx.places) + 1]
                ELSE variables.placeUuid
        place == [k \in PlaceFields |->
                    IF k = "placeUuid" THEN uuid
                    ELSE IF k \in DOMAIN variables THEN variables[k]
                    ELSE IF i # 0 THEN ctx.places[i][k]
                    ELSE IF k = "types" THEN <<>>
                    ELSE None]
        stored == IF i = 0 THEN Append(ctx.places, place)
                  ELSE [ctx.places EXCEPT ![i] = place]
    IN  [ctx |-> [ctx EXCEPT !.places = stored],
         result |-> [insertUpdatePlace |-> [place |-> place]]]

\* query contactProfileList(email)
BackendContactProfileList(ctx, variables) ==
    LET found == SelectSeq(ctx.contacts, LAMBDA c : c.email = variables.email)
    IN  [ctx |-> ctx,
         result |-> [contactProfileList |->
                        [total |-> Len(found), contactProfileList |-> found]]]

\* mutation insertUpdateContactProfile(...): placeUuid is stored as the
\* UUID of the associated place, data replaces the stored data.
BackendInsertUpdateContactProfile(ctx, variables) ==
    LET i == IF "contactUuid" \in DOMAIN variables
             THEN IndexOf(ctx.contacts, "contactUuid", variables.contactUuid)
             ELSE 0
        uuid == IF i = 0 THEN ContactUuids[Len(ctx.contacts) + 1]
                ELSE variables.contactUuid
        profile == [k \in ContactFields |->
                      IF k = "contactUuid" THEN uuid
                      ELSE IF k = "place" /\ "placeUuid" \in DOMAIN variables
                      THEN [placeUuid |-> variables["placeUuid"]]
                      ELSE IF k # "place" /\ k \in DOMAIN variables
                      THEN variables[k]
                      ELSE IF i # 0 THEN ctx.contacts[i][k]
                      ELSE IF k = "place" THEN [placeUuid |-> NoneS]
                      ELSE IF k = "data" THEN EmptyDict
                      ELSE NoneS]
        stored == IF i = 0 THEN Append(ctx.contacts, profile)
                  ELSE [ctx.contacts EXCEPT ![i] = profile]
    IN  [ctx |-> [ctx EXCEPT !.contacts = stored],
         result |-> [insertUpdateContactProfile |-> [contactProfile |-> profile]]]

\* mutation insertUpdateContactRequest(...): always a new request.
BackendInsertUpdateContactRequest(ctx, variables) ==
    LET request == [requestUuid |-> RequestUuids[Len(ctx.requests) + 1],
                    placeUuid |-> variables["placeUuid"],
                    contactUuid |-> variables["contactUuid"],
                    requestTitle |-> variables["requestTitle"],
                    requestDetail |-> variables["requestDetail"]]
    IN  [ctx |-> [ctx EXCEPT !.requests = Append(@, request)],
         result |-> [insertUpdateContactRequest |-> [contactRequest |-> request]]]

\* mutation createDraftOrder(...): Shopify creates the draft order, or
\* answers without one.
BackendCreateDraftOrder(ctx, variables, created) ==
    LET order == [email |-> variables["email"],
                  lineItems |-> variables["lineItems"]]
    IN  IF created
        THEN [ctx |-> [ctx EXCEPT !.orders = Append(@, order)],
              result |-> [createDraftOrder |-> [draftOrder |-> order]]]
        ELSE [ctx |-> ctx, result |-> [createDraftOrder |-> EmptyDict]]

\* query customer(...): Shopify knows the customer, or does not.
BackendCustomer(ctx, variables, known) ==
    [ctx |-> ctx,
     result |-> IF known THEN [customer |-> [email |-> variables["email"]]]
                ELSE EmptyDict]

---------------------------------------------------------------------------
(* The GraphQL bridge.  ctx is the state an invocation works on: the store, *)
(* the schema cache, endpoint_id and the calls made so far.  plan is what   *)
(* the environment does to this invocation: plan.at is the number of the    *)
(* bridge call that fails (0: none does), plan.kind whether it is the       *)
(* schema fetch or the execution that raises, plan.shop what the Shopify    *)
(* service answers.  A call that raises has changed nothing remotely.       *)

FunctionNames == {"ai_marketing_graphql", "shopify_app_engine_graphql"}

\* Dispatch of an executed operation to the service that serves it.
Backend(ctx, operation_name, variables, plan) ==
    CASE operation_name = "place" -> BackendPlace(ctx, variables)
      [] operation_name = "placeList" -> BackendPlaceList(ctx, variables)
      [] operation_name = "insertUpdatePlace" ->
            BackendInsertUpdatePlace(ctx, variables)
      [] operation_name = "contactProfileList" ->
            BackendContactProfileList(ctx, variables)
      [] operation_name = "insertUpdateContactProfile" ->
            BackendInsertUpdateContactProfile(ctx, variables)
      [] operation_name = "insertUpdateContactRequest" ->
            BackendInsertUpdateContactRequest(ctx, variables)
      [] operation_name = "createDraftOrder" ->
            BackendCreateDraftOrder(ctx, variables, plan.shop)
      [] operation_name = "customer" ->
            BackendCustomer(ctx, variables, plan.shop)

\* _fetch_graphql_schema that never looks into the cache: every resolution
\* fetches and stores.
fetch_graphql_schema_uncached(ctx, function_name, raises) ==
    IF raises
    THEN [ok |-> FALSE, fetched |-> TRUE, schemas |-> ctx.schemas,
          msg |-> <<"Failed to fetch GraphQL schema: ", function_name,
                    "/", ctx.endpoint_id,
                    ". Please check the configuration and ensure all required settings are properly. Error: ",
                    "fetch failed">>]
    ELSE [ok |-> TRUE, fetched |-> TRUE,
          schemas |-> (function_name :>
                          [function_name |-> function_name,
                           endpoint_id |-> ctx.endpoint_id])
                      @@ ctx.schemas,
          msg |-> <<>>]

\* _fetch_graphql_schema: the cached schema, fetched on a miss.  The schema
\* is the one of (function_name, the endpoint_id at the time of the fetch).
fetch_graphql_schema(ctx, function_name, raises) ==
    IF function_name \notin DOMAIN ctx.schemas
    THEN IF raises
         THEN [ok |-> FALSE, fetched |-> TRUE, schemas |-> ctx.schemas,
               msg |-> <<"Failed to fetch GraphQL schema: ", function_name,
                         "/", ctx.endpoint_id,
                         ". Please check the configuration and ensure all required settings are properly. Error: ",
                         "fetch failed">>]
         ELSE [ok |-> TRUE, fetched |-> TRUE,
               schemas |-> (function_name :>
                               [function_name |-> function_name,
                                endpoint_id |-> ctx.endpoint_id])
                           @@ ctx.schemas,
               msg |-> <<>>]
    ELSE [ok |-> TRUE, fetched |-> FALSE, schemas |-> ctx.schemas,
          msg |-> <<>>]

\* The wrapped failure without the endpoint.
execute_error_no_endpoint(function_name, endpoint, inner) ==
    <<"Failed to execute GraphQL query (", function_name, "). Error: ">>
    \o inner

\* The message of the exception _execute_graphql_query raises in place of
\* the one it caught.
execute_error(function_name, endpoint, inner) ==
    <<"Failed to execute GraphQL query (", function_name, "/", endpoint,
      "). Error: ">> \o inner

\* The record of one call of the bridge, as the service and the log see it.
call_record(function_name, operation_name, operation_type, variables, fetched, status, result) ==
    [function_name |-> function_name, operation_name |-> operation_name,
     operation_type |-> operation_type, variables |-> variables,
     fetched |-> fetched, status |-> status, result |-> result]

\* Graphql(...).execute answered b: the response is returned.
execute_answered(ctx, s, call, b) ==
    [ok |-> TRUE, result |-> b.result, msg |-> <<>>,
     ctx |-> [b.ctx EXCEPT !.schemas = s.schemas,
                           !.calls = Append(@, [call EXCEPT !.status = "ok",
                                                            !.result = b.result])]]

\* _execute_graphql_query once the schema is resolved to s: execute, and
\* wrap whatever was raised.
execute_with_schema(ctx, plan, call, s) ==
    IF ~s.ok
    THEN [ok |-> FALSE, result |-> NoneD,
          msg |-> execute_error(call.function_name, ctx.endpoint_id, s.msg),
          ctx |-> [ctx EXCEPT !.calls =
                      Append(@, [call EXCEPT !.fetched = s.fetched,
                                             !.status = "fetch_failed"])]]
    ELSE IF plan.at = Len(ctx.calls) + 1 /\ plan.kind = "exec"
    THEN [ok |-> FALSE, result |-> NoneD,
          msg |-> execute_error(call.function_name, ctx.endpoint_id,
                                <<"execution failed">>),
          ctx |-> [ctx EXCEPT !.schemas = s.schemas,
                              !.calls =
                      Append(@, [call EXCEPT !.fetched = s.fetched,
                                             !.status = "exec_failed"])]]
    ELSE execute_answered(ctx, s, [call EXCEPT !.fetched = s.fetched],
             Backend(ctx, call.operation_name, call.variables, plan))

\* _execute_graphql_query with query = None: resolve the schema, execute.
execute_graphql_query(ctx, plan, function_name, operation_name, operation_type, variables) ==
    execute_with_schema(ctx, plan,
        call_record(function_name, operation_name, operation_type, variables,
                    FALSE, "ok", NoneD),
        fetch_graphql_schema(ctx, function_name,
            plan.at = Len(ctx.calls) + 1 /\ plan.kind = "fetch"))

\* How a handler ends: a return value, or an exception of a class with a
\* message.
Return(ctx, value) ==
    [ok |-> TRUE, err |-> "none", msg |-> <<>>, ret |-> value, ctx |-> ctx]

Raise(ctx, err, msg) ==
    [ok |-> FALSE, err |-> err, msg |-> msg, ret |-> NoneD, ctx |-> ctx]

---------------------------------------------------------------------------
(* get_place                                                               *)

LocationKeys == <<"region", "latitude", "longitude", "address">>

\* place_unchanged comparing the types lists as they come, unsorted.
place_unchanged_unsorted(place, arguments) ==
    /\ Get(place, "business_name") = Get(arguments, "business_name")
    /\ Get(place, "phone_number") = Get(arguments, "phone_number")
    /\ Get(place, "website") = Get(arguments, "website")
    /\ GetD(place, "types", <<>>) = GetD(arguments, "types", <<>>)

\* The comparison that decides "unchanged" (the all([...]) of get_place).
place_unchanged(place, arguments) ==
    /\ Get(place, "business_name") = Get(arguments, "business_name")
    /\ Get(place, "phone_number") = Get(arguments, "phone_number")
    /\ Get(place, "website") = Get(arguments, "website")
    /\ Sorted(GetD(place, "types", <<>>))
         = Sorted(GetD(arguments, "types", <<>>))

\* place_update that leaves the website out of the upsert.
place_update_no_website(arguments) ==
    [businessName |-> Get(arguments, "business_name"),
     phoneNumber |-> Get(arguments, "phone_number"),
     types |-> GetD(arguments, "types", <<>>),
     updatedBy |-> "Admin"]

\* The fields every upsert of get_place adds to the location variables.
place_update(arguments) ==
    [businessName |-> Get(arguments, "business_name"),
     phoneNumber |-> Get(arguments, "phone_number"),
     website |-> Get(arguments, "website"),
     types |-> GetD(arguments, "types", <<>>),
     updatedBy |-> "Admin"]

\* get_place by UUID handing the record on as the service spelled it.
get_place_fetched_camel(q) ==
    IF ~q.ok THEN Raise(q.ctx, "Exception", q.msg)
    ELSE Return(q.ctx, q.result["place"])

\* get_place by UUID once the place query has answered q.
get_place_fetched(q) ==
    IF ~q.ok THEN Raise(q.ctx, "Exception", q.msg)
    ELSE Return(q.ctx, Decamelize(q.result["place"]))

get_place_by_uuid(arguments, plan, ctx) ==
    get_place_fetched(
        execute_graphql_query(ctx, plan, "ai_marketing_graphql", "place",
            "Query", [placeUuid |-> arguments["place_uuid"]]))

\* get_place once its insertUpdatePlace mutation has answered m.
get_place_upserted(m) ==
    IF ~m.ok THEN Raise(m.ctx, "Exception", m.msg)
    ELSE Return(m.ctx, Decamelize(m.result["insertUpdatePlace"]["place"]))

\* get_place once placeList has answered q: return the place found when
\* nothing differs, else upsert.
get_place_compare(arguments, plan, variables, q) ==
    LET found == q.result["placeList"]["total"] > 0
        place == Decamelize(q.result["placeList"]["placeList"][1])
        variables2 == IF found
                      THEN Update(variables, [placeUuid |-> place["place_uuid"]])
                      ELSE variables
    IN  IF ~q.ok THEN Raise(q.ctx, "Exception", q.msg)
        ELSE IF found /\ place_unchanged(place, arguments)
        THEN Return(q.ctx, place)
        ELSE get_place_upserted(
                 execute_graphql_query(q.ctx, plan, "ai_marketing_graphql",
                     "insertUpdatePlace", "Mutation",
                     Update(variables2, place_update(arguments))))

\* The query variables of the lookup by location.
location_variables(arguments) ==
    [region |-> arguments["region"], latitude |-> arguments["latitude"],
     longitude |-> arguments["longitude"], address |-> arguments["address"]]

get_place_by_location(arguments, plan, ctx) ==
    get_place_compare(arguments, plan, location_variables(arguments),
        execute_graphql_query(ctx, plan, "ai_marketing_graphql", "placeList",
            "Query", location_variables(arguments)))

\* get_place without its assert: a missing field is met by the lookup
\* arguments[k] that builds the query variables.
get_place_run_unchecked(arguments, plan, ctx) ==
    IF Truthy(arguments, "place_uuid")
    THEN get_place_by_uuid(arguments, plan, ctx)
    ELSE IF \E i \in 1..Len(LocationKeys) : LocationKeys[i] \notin DOMAIN arguments
    THEN Raise(ctx, "KeyError",
               <<LocationKeys[CHOOSE i \in 1..Len(LocationKeys) :
                     /\ LocationKeys[i] \notin DOMAIN arguments
                     /\ \A j \in 1..(i - 1) : LocationKeys[j] \in DOMAIN arguments]>>)
    ELSE get_place_by_location(arguments, plan, ctx)

get_place_run(arguments, plan, ctx) ==
    IF Truthy(arguments, "place_uuid")
    THEN get_place_by_uuid(arguments, plan, ctx)
    ELSE IF ~ \A i \in 1..Len(LocationKeys) : Truthy(arguments, LocationKeys[i])
    THEN Raise(ctx, "AssertionError", <<"Missing required arguments">>)
    ELSE get_place_by_location(arguments, plan, ctx)

---------------------------------------------------------------------------
(* get_contact_profile                                                     *)

\* The first of the keys that d lacks, as d[k] meets them in this order.
FirstMissing(d, keys) ==
    keys[CHOOSE i \in 1..Len(keys) :
            /\ keys[i] \notin DOMAIN d
            /\ \A j \in 1..(i - 1) : keys[j] \in DOMAIN d]

HasAll(d, keys) == \A i \in 1..Len(keys) : keys[i] \in DOMAIN d

\* contact_unchanged reading place_uuid off the profile itself instead of
\* its nested place.
contact_unchanged_flat_place(contact_profile, contact, place) ==
    /\ GetS(contact_profile, "first_name") = contact["first_name"]
    /\ GetS(contact_profile, "last_name") = contact["last_name"]
    /\ GetS(contact_profile, "place_uuid") = GetS(place, "place_uuid")

\* The comparison that decides "unchanged" (the all([...]) of
\* get_contact_profile).
contact_unchanged(contact_profile, contact, place) ==
    /\ GetS(contact_profile, "first_name") = contact["first_name"]
    /\ GetS(contact_profile, "last_name") = contact["last_name"]
    /\ GetS(contact_profile["place"], "place_uuid") = GetS(place, "place_uuid")

\* The lookups contact["first_name"], contact["last_name"] of the handler.
ContactNameKeys == <<"first_name", "last_name">>

\* get_contact_profile once its insertUpdateContactProfile mutation has
\* answered m.
get_contact_profile_upserted(m) ==
    IF ~m.ok THEN Raise(m.ctx, "Exception", m.msg)
    ELSE Return(m.ctx,
             Decamelize(m.result["insertUpdateContactProfile"]["contactProfile"]))

\* get_contact_profile once contactProfileList has answered q: return the
\* profile found when nothing differs, else upsert.
get_contact_profile_compare(contact, place, plan, q) ==
    LET found == q.result["contactProfileList"]["total"] > 0
        contact_profile ==
            Decamelize(q.result["contactProfileList"]["contactProfileList"][1])
        variables == [email |-> contact["email"]]
        variables2 ==
            IF found
            THEN Update(variables,
                        [contactUuid |-> contact_profile["contact_uuid"]])
            ELSE variables
    IN  IF ~q.ok THEN Raise(q.ctx, "Exception", q.msg)
        ELSE IF ~HasAll(contact, ContactNameKeys)
        THEN Raise(q.ctx, "KeyError",
                   <<FirstMissing(contact, ContactNameKeys)>>)
        ELSE IF found /\ contact_unchanged(contact_profile, contact, place)
        THEN Return(q.ctx, contact_profile)
        ELSE get_contact_profile_upserted(
                 execute_graphql_query(q.ctx, plan, "ai_marketing_graphql",
                     "insertUpdateContactProfile", "Mutation",
                     Update(variables2,
                            [firstName |-> contact["first_name"],
                             lastName |-> contact["last_name"],
                             placeUuid |-> GetS(place, "place_uuid"),
                             updatedBy |-> "Admin"])))

get_contact_profile_upsert(contact, place, plan, ctx) ==
    get_contact_profile_compare(contact, place, plan,
        execute_graphql_query(ctx, plan, "ai_marketing_graphql",
            "contactProfileList", "Query", [email |-> contact["email"]]))

get_contact_profile_run(arguments, plan, ctx) ==
    IF "contact" \notin DOMAIN arguments
    THEN Raise(ctx, "KeyError", <<"contact">>)
    ELSE IF "email" \notin DOMAIN arguments["contact"]
    THEN Raise(ctx, "KeyError", <<"email">>)
    ELSE get_contact_profile_upsert(arguments["contact"],
             GetD(arguments, "place", EmptyDict), plan, ctx)

---------------------------------------------------------------------------
(* data_collect.  The dataset is a JSON object: a sequence of members      *)
(* [k, t, s, l], k the key, t the type of the value ("null", "str" or      *)
(* "list"), s the string or l the list, whose items [t, s, n] are strings  *)
(* (t = "str") or numbers (t = "num").                                     *)

\* Serializer.json_loads: the dict of the members, a repeated key keeping
\* its last value.
JsonLoads(doc) ==
    [k \in {doc[i].k : i \in 1..Len(doc)} |->
        doc[CHOOSE i \in 1..Len(doc) :
               /\ doc[i].k = k
               /\ \A j \in (i + 1)..Len(doc) : doc[j].k # k]]

\* ", ".join(list), of a list of strings.
RECURSIVE Join(_)
Join(l) ==
    IF l = <<>> THEN <<>>
    ELSE IF Len(l) = 1 THEN l[1].s
    ELSE l[1].s \o <<",", " ">> \o Join(Tail(l))

\* str.join raises TypeError on the first item that is not a string.
JoinRaises(l) == \E i \in 1..Len(l) : l[i].t # "str"

\* The dict comprehension raises when the join of one of its lists does.
CleanedRaises(parsed) ==
    \E k \in DOMAIN parsed : parsed[k].t = "list" /\ JoinRaises(parsed[k].l)

\* The dict comprehension: None values dropped, lists joined.
Cleaned(parsed) ==
    [k \in {x \in DOMAIN parsed : parsed[x].t # "null"} |->
        IF parsed[k].t = "list" THEN Join(parsed[k].l) ELSE parsed[k].s]

NamedFields == {"place_uuid", "email", "first_name", "last_name"}

DefaultSalesRep ==
    <<"M", "a", "r", "k", "e", "t", "i", "n", "g", " ", "T", "e", "a", "m">>

DefaultSalesRepEmail ==
    <<"m", "a", "r", "k", "e", "t", "i", "n", "g", "@", "c", "o", "m", "p",
      "a", "n", "y", ".", "c", "o", "m">>

\* What is left after the four pops, with the configured sales_rep.
DataPayload(cleaned, config) ==
    Update([k \in DOMAIN cleaned \ NamedFields |-> cleaned[k]],
           [sales_rep |-> GetD(config, "sales_rep", DefaultSalesRep)])

\* The upsert never told which record it is about.
carry_contact_uuid_never(variables, found, contact_profile) == variables

\* if contact_uuid: variables.update({"contactUuid": contact_uuid})
carry_contact_uuid(variables, found, contact_profile) ==
    IF found
    THEN Update(variables, [contactUuid |-> contact_profile["contact_uuid"]])
    ELSE variables

\* data_collect returning the default representative whatever is configured.
data_collect_upserted_default_rep(setting_, m) ==
    IF ~m.ok THEN Raise(m.ctx, "Exception", m.msg)
    ELSE Return(m.ctx,
             [contact_uuid |->
                  Decamelize(m.result["insertUpdateContactProfile"]
                                     ["contactProfile"])["contact_uuid"],
              sales_rep |-> DefaultSalesRep,
              sales_rep_email |-> DefaultSalesRepEmail])

\* data_collect once its insertUpdateContactProfile mutation has answered m.
data_collect_upserted(setting_, m) ==
    IF ~m.ok THEN Raise(m.ctx, "Exception", m.msg)
    ELSE Return(m.ctx,
             [contact_uuid |->
                  Decamelize(m.result["insertUpdateContactProfile"]
                                     ["contactProfile"])["contact_uuid"],
              sales_rep |-> GetD(setting_, "sales_rep", DefaultSalesRep),
              sales_rep_email |-> GetD(setting_, "sales_rep_email",
                                       DefaultSalesRepEmail)])

\* data_collect once contactProfileList has answered q: upsert, whatever
\* was found.
data_collect_found(cleaned, plan, setting_, q) ==
    LET found == q.result["contactProfileList"]["total"] > 0
        contact_profile ==
            Decamelize(q.result["contactProfileList"]["contactProfileList"][1])
        variables == [placeUuid |-> GetS(cleaned, "place_uuid"),
                      email |-> GetS(cleaned, "email"),
                      firstName |-> GetS(cleaned, "first_name"),
                      lastName |-> GetS(cleaned, "last_name"),
                      data |-> DataPayload(cleaned, setting_),
                      updatedBy |-> "Admin"]
    IN  IF ~q.ok THEN Raise(q.ctx, "Exception", q.msg)
        ELSE data_collect_upserted(setting_,
                 execute_graphql_query(q.ctx, plan, "ai_marketing_graphql",
                     "insertUpdateContactProfile", "Mutation",
                     carry_contact_uuid(variables, found, contact_profile)))

data_collect_upsert(cleaned, plan, ctx) ==
    data_collect_found(cleaned, plan, ctx.setting,
        execute_graphql_query(ctx, plan, "ai_marketing_graphql",
            "contactProfileList", "Query", [email |-> GetS(cleaned, "email")]))

data_collect_run(arguments, plan, ctx) ==
    IF "data_collect_dataset" \notin DOMAIN arguments
    THEN Raise(ctx, "KeyError", <<"data_collect_dataset">>)
    ELSE IF CleanedRaises(JsonLoads(arguments["data_collect_dataset"]))
    THEN Raise(ctx, "TypeError", <<"expected str instance">>)
    ELSE data_collect_upsert(
             Cleaned(JsonLoads(arguments["data_collect_dataset"])), plan, ctx)

---------------------------------------------------------------------------
(* submit_request                                                          *)

RequestKeys == <<"place_uuid", "contact_uuid", "request_title", "request_detail">>

\* The variables of the insertUpdateContactRequest mutation.
request_variables(arguments) ==
    [placeUuid |-> arguments["place_uuid"],
     contactUuid |-> arguments["contact_uuid"],
     requestTitle |-> arguments["request_title"],
     requestDetail |-> arguments["request_detail"],
     updatedBy |-> "Admin"]

\* submit_request once its mutation has answered m.
submit_request_stored(m) ==
    IF ~m.ok THEN Raise(m.ctx, "Exception", m.msg)
    ELSE Return(m.ctx,
             [request_uuid |->
                  Decamelize(m.result["insertUpdateContactRequest"]
                                     ["contactRequest"])["request_uuid"]])

\* submit_request raising after its mutation, stored or not.
submit_request_run_always_fails(arguments, plan, ctx) ==
    IF ~HasAll(arguments, RequestKeys)
    THEN Raise(ctx, "KeyError", <<FirstMissing(arguments, RequestKeys)>>)
    ELSE Raise(submit_request_stored(
                   execute_graphql_query(ctx, plan, "ai_marketing_graphql",
                       "insertUpdateContactRequest", "Mutation",
                       request_variables(arguments))).ctx,
               "KeyError", <<"contact_request">>)

submit_request_run(arguments, plan, ctx) ==
    IF ~HasAll(arguments, RequestKeys)
    THEN Raise(ctx, "KeyError", <<FirstMissing(arguments, RequestKeys)>>)
    ELSE submit_request_stored(
             execute_graphql_query(ctx, plan, "ai_marketing_graphql",
                 "insertUpdateContactRequest", "Mutation",
                 request_variables(arguments)))

---------------------------------------------------------------------------
(* place_shopify_draft_order                                               *)

Digits == {"0", "1", "2", "3", "4", "5", "6", "7", "8", "9"}

\* Every digit of s, run or not.
all_digits(s) == SelectSeq(s, LAMBDA c : c \in Digits)

\* re.search(r"\d+", s).group(): the first maximal run of digits of s; the
\* empty sequence stands for "no match".
FirstDigitRun(s) ==
    IF \A i \in 1..Len(s) : s[i] \notin Digits THEN <<>>
    ELSE LET first == CHOOSE i \in 1..Len(s) :
                         /\ s[i] \in Digits
                         /\ \A j \in 1..(i - 1) : s[j] \notin Digits
             stop == CHOOSE i \in first..Len(s) :
                         /\ \A j \in first..i : s[j] \in Digits
                         /\ i = Len(s) \/ s[i + 1] \notin Digits
         IN  SubSeq(s, first, stop)

\* The loop over items: an item without variant_id, or whose variant_id has
\* no digit, is skipped; quantity defaults to 1.
RECURSIVE LineItems(_)
LineItems(items) ==
    IF items = <<>> THEN <<>>
    ELSE LET item == Head(items)
             rest == LineItems(Tail(items))
         IN  IF GetS(item, "variant_id") = NoneS THEN rest
             ELSE IF FirstDigitRun(item["variant_id"]) = <<>> THEN rest
             ELSE <<[variant_id |-> FirstDigitRun(item["variant_id"]),
                     quantity |-> GetD(item, "quantity", 1)]>> \o rest

\* place_shopify_draft_order once createDraftOrder has answered m.
draft_order_created(m) ==
    IF ~m.ok THEN Raise(m.ctx, "Exception", m.msg)
    ELSE IF "draftOrder" \in DOMAIN m.result["createDraftOrder"]
    THEN Return(m.ctx, m.result["createDraftOrder"]["draftOrder"])
    ELSE Return(m.ctx, NoneD)

place_shopify_draft_order_run(arguments, plan, ctx) ==
    IF "contact" \notin DOMAIN arguments
    THEN Raise(ctx, "KeyError", <<"contact">>)
    ELSE IF "email" \notin DOMAIN arguments["contact"]
    THEN Raise(ctx, "KeyError", <<"email">>)
    ELSE draft_order_created(
             execute_graphql_query(ctx, plan, "shopify_app_engine_graphql",
                 "createDraftOrder", "Mutation",
                 [shop |-> ctx.endpoint_id,
                  email |-> arguments["contact"]["email"],
                  lineItems |-> LineItems(GetD(arguments, "items", <<>>)),
                  shippingAddress |-> GetD(arguments, "shipping_address", NoneD),
                  billingAddress |-> GetD(arguments, "billing_address", NoneD)]))

---------------------------------------------------------------------------
(* get_shopify_customer                                                    *)

AddressKeys == {"address1", "address2", "city", "province_code", "province",
                "zip", "country", "country_code", "company", "first_name",
                "last_name", "phone"}

\* get_shopify_customer once the customer query has answered q.
customer_answered(q) ==
    IF ~q.ok THEN Raise(q.ctx, "Exception", q.msg)
    ELSE IF "customer" \in DOMAIN q.result
    THEN Return(q.ctx, q.result["customer"])
    ELSE Return(q.ctx, NoneD)

\* get_shopify_customer once get_contact_profile has ended as p: its
\* exception goes on to the caller, else Shopify is asked.
customer_after_profile(contact, address, plan, endpoint, p) ==
    LET variables == [shop |-> endpoint,
                      email |-> contact["email"],
                      firstName |-> GetS(contact, "first_name"),
                      LastName |-> GetS(contact, "last_name"),
                      phone |-> GetS(contact, "phone")]
        variables2 ==
            IF address # EmptyDict
            THEN Update(variables,
                        [address |-> [k \in AddressKeys |-> GetS(address, k)]])
            ELSE variables
    IN  IF ~p.ok THEN Raise(p.ctx, p.err, p.msg)
        ELSE customer_answered(
                 execute_graphql_query(p.ctx, plan, "shopify_app_engine_graphql",
                     "customer", "Query", variables2))

get_shopify_customer_query(contact, address, plan, ctx) ==
    customer_after_profile(contact, address, plan, ctx.endpoint_id,
        get_contact_profile_run(
            [contact |-> contact,
             place |-> [place_uuid |-> GetS(address, "place_uuid")]],
            plan, ctx))

get_shopify_customer_run(arguments, plan, ctx) ==
    IF "contact" \notin DOMAIN arguments
    THEN Raise(ctx, "KeyError", <<"contact">>)
    ELSE IF "email" \notin DOMAIN arguments["contact"]
    THEN Raise(ctx, "KeyError", <<"email">>)
    ELSE get_shopify_customer_query(arguments["contact"],
             GetD(arguments, "address", EmptyDict), plan, ctx)

---------------------------------------------------------------------------
(* State, and the step every invocation takes.                             *)

\* The threads that may resolve a schema at the same time.
MaxThreads == 3

Threads == 1..MaxThreads

\* A thread that has not called _fetch_graphql_schema.
Idle == [pc |-> "idle", function_name |-> None, schema |-> NoneD,
         result |-> NoneD]

NoInvocation ==
    [tool |-> "none", arguments |-> EmptyDict, calls |-> <<>>, ok |-> TRUE,
     err |-> "none", msg |-> <<>>, ret |-> NoneD, changed |-> FALSE,
     endpoint_id |-> None, repeat |-> FALSE, first_ok |-> FALSE]

\* The settings a deployment constructs the class with: the sales
\* representative configured, or not.
Settings ==
    {EmptyDict,
     [sales_rep |-> <<"R", "e", "p">>],
     [sales_rep |-> <<"R", "e", "p">>, sales_rep_email |-> <<"r", "@", "x">>]}

\* __init__(logger, **setting): nothing cached, no endpoint set; the
\* service holds no record.
InitWith(config) ==
    /\ places = <<>>
    /\ contacts = <<>>
    /\ requests = <<>>
    /\ orders = <<>>
    /\ schemas = EmptyDict
    /\ endpoint_id = None
    /\ setting = config
    /\ last = NoInvocation
    /\ resolving = [t \in Threads |-> Idle]

Init == \E config \in Settings : InitWith(config)

Ctx ==
    [places |-> places, contacts |-> contacts, requests |-> requests,
     orders |-> orders, schemas |-> schemas, endpoint_id |-> endpoint_id,
     setting |-> setting, calls |-> <<>>]

\* The invocation r of `tool` takes effect: the store and the cache become
\* those it left, and `last` records what the caller and the service saw.
\* repeat: the caller re-invokes the tool of `last` with the same arguments.
Commit(tool, arguments, r, repeat) ==
    /\ Len(r.ctx.requests) <= MaxRequests
    /\ Len(r.ctx.orders) <= MaxOrders
    /\ Len(r.ctx.places) + Len(r.ctx.contacts) + Len(r.ctx.requests)
          + Len(r.ctx.orders) <= MaxRecords
    /\ setting' = setting
    /\ resolving' = resolving
    /\ places' = r.ctx.places
    /\ contacts' = r.ctx.contacts
    /\ requests' = r.ctx.requests
    /\ orders' = r.ctx.orders
    /\ schemas' = r.ctx.schemas
    /\ endpoint_id' = endpoint_id
    /\ last' = [tool |-> tool, arguments |-> arguments, calls |-> r.ctx.calls,
                ok |-> r.ok, err |-> r.err, msg |-> r.msg, ret |-> r.ret,
                changed |-> <<r.ctx.places, r.ctx.contacts, r.ctx.requests,
                              r.ctx.orders>>
                            # <<places, contacts, requests, orders>>,
                endpoint_id |-> endpoint_id,
                repeat |-> repeat,
                first_ok |-> repeat /\ last.ok]

\* The environment's plans for an invocation of up to three bridge calls.
NoFailure == [at |-> 0, kind |-> "exec", shop |-> TRUE]

Plans(calls) ==
    {NoFailure} \cup [at : calls, kind : {"fetch", "exec"}, shop : {TRUE}]

---------------------------------------------------------------------------
(* Arguments of get_place.                                                 *)

Drop(d, k) == [x \in DOMAIN d \ {k} |-> d[x]]

FullLocation ==
    [region |-> "us", latitude |-> 1, longitude |-> 2, address |-> "addr"]

OtherLocation == [FullLocation EXCEPT !.region = "eu"]

\* All four fields, one of them missing, none of them, and a latitude of 0.
Locations ==
    {FullLocation, [FullLocation EXCEPT !.latitude = 0], EmptyDict}
    \cup {Drop(FullLocation, LocationKeys[i]) : i \in 1..Len(LocationKeys)}

BaseDetails ==
    [business_name |-> "b1", phone_number |-> "ph", website |-> "w",
     types |-> <<"a", "b">>]

\* The business details: each compared field differs from the base in
\* turn; the types also in order only, and in multiplicity only.
Details ==
    {BaseDetails,
     [BaseDetails EXCEPT !.business_name = "b2"],
     Drop(BaseDetails, "phone_number"),
     Drop(BaseDetails, "website"),
     Drop(BaseDetails, "types"),
     [BaseDetails EXCEPT !.types = <<"b", "a">>],
     [BaseDetails EXCEPT !.types = <<"a", "a", "b">>]}

\* Every detail with a full location; the incomplete locations with and
\* without details; a place_uuid alone and on top of a full location.
GetPlaceArguments ==
    {FullLocation @@ d : d \in Details}
    \cup {l @@ d : l \in Locations \ {FullLocation},
                   d \in {BaseDetails, EmptyDict}}
    \cup {OtherLocation @@ BaseDetails,
          [place_uuid |-> ""] @@ FullLocation @@ BaseDetails,
          [place_uuid |-> "p1"],
          [place_uuid |-> "p1"] @@ FullLocation @@ Drop(BaseDetails, "website"),
          [place_uuid |-> "p2"]}

---------------------------------------------------------------------------
(* Arguments of the contact tools.                                         *)

EmailA == <<"a", "@", "x">>

EmailB == <<"b", "@", "x">>

PlaceA == <<"p", "1">>

\* Contacts: with both names, with one name changed, with a name or both
\* missing, without email, and a second person.
ContactInputs ==
    {[email |-> EmailA, first_name |-> <<"A">>, last_name |-> <<"L">>],
     [email |-> EmailA, first_name |-> <<"B">>, last_name |-> <<"L">>],
     [email |-> EmailA, first_name |-> <<"A">>, last_name |-> <<"M">>],
     [email |-> EmailA, first_name |-> <<"A">>],
     [email |-> EmailA, last_name |-> <<"L">>],
     [email |-> EmailA],
     [first_name |-> <<"A">>, last_name |-> <<"L">>],
     [email |-> EmailB, first_name |-> <<"A">>, last_name |-> <<"L">>]}

PlaceInputs == {EmptyDict, [place |-> [place_uuid |-> PlaceA]]}

\* The second person comes without a place only.
GetContactProfileArguments ==
    {[contact |-> c] @@ p :
        c \in {x \in ContactInputs : GetS(x, "email") # EmailB},
        p \in PlaceInputs}
    \cup {[contact |-> c] : c \in ContactInputs}
    \cup {EmptyDict}

Str(k, s) == [k |-> k, t |-> "str", s |-> s, l |-> <<>>]

List(k, l) == [k |-> k, t |-> "list", s |-> <<>>, l |-> l]

Null(k) == [k |-> k, t |-> "null", s |-> <<>>, l |-> <<>>]

StrItem(s) == [t |-> "str", s |-> s, n |-> 0]

NumItem(n) == [t |-> "num", s |-> <<>>, n |-> n]

\* Datasets: the four named fields with a list; no place, a null, a
\* sales_rep of the caller's and a repeated key; names missing; a list of
\* numbers.
Datasets ==
    {<<Str("place_uuid", PlaceA), Str("email", EmailA),
       Str("first_name", <<"A">>), Str("last_name", <<"L">>),
       List("tags", <<StrItem(<<"x">>), StrItem(<<"y">>)>>)>>,
     <<Str("email", EmailA), Str("first_name", <<"B">>),
       Str("last_name", <<"L">>), Null("note"),
       Str("sales_rep", <<"Z">>), Str("first_name", <<"A">>)>>,
     <<Str("email", EmailA), Null("first_name"), List("tags", <<>>)>>,
     <<Str("email", EmailA), Str("first_name", <<"A">>),
       Str("last_name", <<"L">>), List("sizes", <<NumItem(1), NumItem(2)>>)>>}

DataCollectArguments ==
    {[data_collect_dataset |-> d] : d \in Datasets} \cup {EmptyDict}

FullRequest ==
    [place_uuid |-> PlaceA, contact_uuid |-> <<"c", "1">>,
     request_title |-> <<"t">>, request_detail |-> <<"d">>]

SubmitRequestArguments ==
    {FullRequest, EmptyDict}
    \cup {Drop(FullRequest, RequestKeys[i]) : i \in 1..Len(RequestKeys)}

\* Items: a global id, a bare number without quantity, an id without
\* digits, an item without variant_id.
DraftOrderArguments ==
    {[contact |-> [email |-> EmailA],
      items |-> <<[variant_id |-> <<"g", "/", "1", "2", "/", "3">>,
                   quantity |-> 2],
                  [variant_id |-> <<"x">>, quantity |-> 1],
                  [quantity |-> 3],
                  [variant_id |-> <<"7">>]>>],
     [contact |-> [email |-> EmailA],
      shipping_address |-> [city |-> <<"c">>]],
     [contact |-> EmptyDict],
     EmptyDict}

ShopifyCustomerArguments ==
    {[contact |-> [email |-> EmailA, first_name |-> <<"A">>,
                   last_name |-> <<"L">>]],
     [contact |-> [email |-> EmailA, first_name |-> <<"A">>,
                   last_name |-> <<"L">>],
      address |-> [place_uuid |-> PlaceA, city |-> <<"c">>]],
     [contact |-> [email |-> EmailA]],
     EmptyDict}

---------------------------------------------------------------------------
(* The tools as actions.  Invocations do not overlap: one starts when the   *)
(* outcome of the one before has been handed to the caller.                *)

get_place(arguments, plan) ==
    /\ last.tool = "none"
    /\ \E r \in {get_place_run(arguments, plan, Ctx)} :
          Commit("get_place", arguments, r, FALSE)

get_contact_profile(arguments, plan) ==
    /\ last.tool = "none"
    /\ \E r \in {get_contact_profile_run(arguments, plan, Ctx)} :
          Commit("get_contact_profile", arguments, r, FALSE)

data_collect(arguments, plan) ==
    /\ last.tool = "none"
    /\ \E r \in {data_collect_run(arguments, plan, Ctx)} :
          Commit("data_collect", arguments, r, FALSE)

submit_request(arguments, plan) ==
    /\ last.tool = "none"
    /\ \E r \in {submit_request_run(arguments, plan, Ctx)} :
          Commit("submit_request", arguments, r, FALSE)

place_shopify_draft_order(arguments, plan) ==
    /\ last.tool = "none"
    /\ \E r \in {place_shopify_draft_order_run(arguments, plan, Ctx)} :
          Commit("place_shopify_draft_order", arguments, r, FALSE)

get_shopify_customer(arguments, plan) ==
    /\ last.tool = "none"
    /\ \E r \in {get_shopify_customer_run(arguments, plan, Ctx)} :
          Commit("get_shopify_customer", arguments, r, FALSE)

\* Dispatch by tool name (the MCP runtime's module_links).
Run(tool, arguments, plan, ctx) ==
    CASE tool = "get_place" -> get_place_run(arguments, plan, ctx)
      [] tool = "get_contact_profile" ->
            get_contact_profile_run(arguments, plan, ctx)
      [] tool = "data_collect" -> data_collect_run(arguments, plan, ctx)
      [] tool = "submit_request" -> submit_request_run(arguments, plan, ctx)
      [] tool = "place_shopify_draft_order" ->
            place_shopify_draft_order_run(arguments, plan, ctx)
      [] tool = "get_shopify_customer" ->
            get_shopify_customer_run(arguments, plan, ctx)

\* The caller invokes the tool it invoked last again, arguments unchanged.
Repeat(plan) ==
    /\ last.tool # "none"
    /\ \E r \in {Run(last.tool, last.arguments, plan, Ctx)} :
          Commit(last.tool, last.arguments, r, TRUE)

\* The runtime hands the outcome of the invocation to the caller.
respond ==
    /\ last.tool # "none"
    /\ last' = NoInvocation
    /\ UNCHANGED <<places, contacts, requests, orders, schemas, endpoint_id,
                   setting, resolving>>

\* The endpoint_id setter: the runtime names the endpoint it serves, between
\* invocations.
set_endpoint_id(value) ==
    /\ last.tool = "none"
    /\ endpoint_id # value
    /\ endpoint_id' = value
    /\ UNCHANGED <<places, contacts, requests, orders, schemas, setting, last,
                   resolving>>

\* Plans that also say what Shopify answers.
ShopPlans(calls) ==
    {[p EXCEPT !.shop = b] : p \in Plans(calls), b \in BOOLEAN}

\* The place tool alone, over all its arguments.
NextPlace ==
    \/ \E a \in GetPlaceArguments, p \in Plans({1, 2}) : get_place(a, p)
    \/ \E p \in Plans({1, 2}) : Repeat(p)
    \/ respond

SpecPlace == InitWith(EmptyDict) /\ [][NextPlace]_vars

\* The tools that read and write contact profiles.
NextContact ==
    \/ \E a \in GetContactProfileArguments, p \in Plans({1, 2}) :
          get_contact_profile(a, p)
    \/ \E a \in DataCollectArguments, p \in Plans({1, 2}) : data_collect(a, p)
    \/ \E p \in Plans({1, 2}) : Repeat(p)
    \/ respond

SpecContact == InitWith(EmptyDict) /\ [][NextContact]_vars

\* A few arguments of each tool, for the specifications of several tools.
FewPlaceArguments ==
    {FullLocation @@ BaseDetails,
     FullLocation @@ [BaseDetails EXCEPT !.types = <<"b", "a">>],
     FullLocation @@ Drop(BaseDetails, "website"),
     Drop(FullLocation, "address") @@ BaseDetails}

FewContactArguments ==
    {[contact |-> [email |-> EmailA, first_name |-> <<"A">>,
                   last_name |-> <<"L">>]],
     [contact |-> [email |-> EmailA, first_name |-> <<"A">>,
                   last_name |-> <<"L">>],
      place |-> [place_uuid |-> PlaceA]],
     [contact |-> [email |-> EmailA]]}

\* The upsert-style tools, each invocation possibly repeated.
NextUpsert ==
    \/ \E a \in FewPlaceArguments, p \in Plans({1, 2}) : get_place(a, p)
    \/ \E a \in FewContactArguments, p \in Plans({1, 2}) :
          get_contact_profile(a, p)
    \/ \E a \in DataCollectArguments, p \in Plans({1, 2}) : data_collect(a, p)
    \/ \E p \in Plans({1, 2}) : Repeat(p)
    \/ respond

SpecUpsert == InitWith(EmptyDict) /\ [][NextUpsert]_vars

\* All six tools, the endpoint set and set again between invocations.
NextTools ==
    \/ \E a \in FewPlaceArguments \cup {[place_uuid |-> "p1"]},
          p \in Plans({1, 2}) : get_place(a, p)
    \/ \E a \in FewContactArguments, p \in Plans({1, 2}) :
          get_contact_profile(a, p)
    \/ \E a \in DataCollectArguments, p \in Plans({1, 2}) : data_collect(a, p)
    \/ \E a \in SubmitRequestArguments, p \in Plans({1}) : submit_request(a, p)
    \/ \E a \in DraftOrderArguments, p \in ShopPlans({1}) :
          place_shopify_draft_order(a, p)
    \/ \E a \in ShopifyCustomerArguments, p \in ShopPlans({1, 2, 3}) :
          get_shopify_customer(a, p)
    \/ \E e \in {None, "shop1"} : set_endpoint_id(e)
    \/ respond

SpecTools == InitWith(EmptyDict) /\ [][NextTools]_vars

\* data_collect under every configuration of the sales representative.
NextCollect ==
    \/ \E a \in DataCollectArguments, p \in Plans({1, 2}) : data_collect(a, p)
    \/ \E p \in Plans({1, 2}) : Repeat(p)
    \/ respond

SpecCollect == Init /\ [][NextCollect]_vars

---------------------------------------------------------------------------
(* _fetch_graphql_schema run by several threads at once.  The interpreter   *)
(* interleaves the threads between statements: the test of the cache, the  *)
(* external fetch, the store of what it returned, and the read that the    *)
(* return statement makes are steps of their own.                          *)

\* The schema object the fetch of thread t returns.
fetched_schema(t, function_name, endpoint) ==
    [function_name |-> function_name, endpoint_id |-> endpoint, fetch |-> t]

\* A store that writes the entry before the schema is whole.
store_schema_partial(cache, function_name, schema) ==
    (function_name :> [function_name |-> function_name]) @@ cache

\* self._schemas[function_name] = schema
store_schema(cache, function_name, schema) ==
    (function_name :> schema) @@ cache

\* A thread calls _fetch_graphql_schema(function_name).
resolve_begin(t, function_name) ==
    /\ resolving[t].pc = "idle"
    /\ resolving' = [resolving EXCEPT ![t].pc = "check",
                                      ![t].function_name = function_name]
    /\ UNCHANGED <<places, contacts, requests, orders, schemas, endpoint_id,
                   setting, last>>

\* if self._schemas.get(function_name) is None
resolve_check(t) ==
    /\ resolving[t].pc = "check"
    /\ resolving' = [resolving EXCEPT ![t].pc =
                        IF resolving[t].function_name \in DOMAIN schemas
                        THEN "return" ELSE "fetch"]
    /\ UNCHANGED <<places, contacts, requests, orders, schemas, endpoint_id,
                   setting, last>>

\* Graphql.fetch_graphql_schema(context, function_name, ...): it returns a
\* schema, or raises and the resolution ends with the wrapped exception.
resolve_fetch(t, raises) ==
    /\ resolving[t].pc = "fetch"
    /\ resolving' = [resolving EXCEPT
                        ![t].pc = IF raises THEN "raised" ELSE "store",
                        ![t].schema =
                            IF raises THEN NoneD
                            ELSE fetched_schema(t, resolving[t].function_name,
                                                endpoint_id)]
    /\ UNCHANGED <<places, contacts, requests, orders, schemas, endpoint_id,
                   setting, last>>

\* self._schemas[function_name] = what the fetch returned
resolve_store(t) ==
    /\ resolving[t].pc = "store"
    /\ schemas' = store_schema(schemas, resolving[t].function_name,
                               resolving[t].schema)
    /\ resolving' = [resolving EXCEPT ![t].pc = "return"]
    /\ UNCHANGED <<places, contacts, requests, orders, endpoint_id, setting,
                   last>>

\* return self._schemas[function_name]
resolve_return(t) ==
    /\ resolving[t].pc = "return"
    /\ resolving' = [resolving EXCEPT
                        ![t].pc = "done",
                        ![t].result = schemas[resolving[t].function_name]]
    /\ UNCHANGED <<places, contacts, requests, orders, schemas, endpoint_id,
                   setting, last>>

NextResolve ==
    \/ \E t \in Threads, f \in FunctionNames : resolve_begin(t, f)
    \/ \E t \in Threads : resolve_check(t)
    \/ \E t \in Threads, raises \in BOOLEAN : resolve_fetch(t, raises)
    \/ \E t \in Threads : resolve_store(t)
    \/ \E t \in Threads : resolve_return(t)

SpecResolve == InitWith(EmptyDict) /\ [][NextResolve]_vars

---------------------------------------------------------------------------
(* What the claims speak of.                                               *)

\* The GraphQL operations the latest invocation sent to a service (a call
\* whose schema fetch raised never sent its operation).
Issued == SelectSeq(last.calls, LAMBDA c : c.status # "fetch_failed")

IssuedOf(operation_type) ==
    SelectSeq(Issued, LAMBDA c : c.operation_type = operation_type)

Count(s, x) == Cardinality({i \in 1..Len(s) : s[i] = x})

Elements(s) == {s[i] : i \in 1..Len(s)}

SameSet(s, t) == Elements(s) = Elements(t)

SameBag(s, t) == \A x \in Elements(s) \cup Elements(t) : Count(s, x) = Count(t, x)

\* The latest invocation was a location lookup of get_place whose placeList
\* query was answered.
LocationLookupAnswered ==
    /\ last.tool = "get_place"
    /\ ~Truthy(last.arguments, "place_uuid")
    /\ \A i \in 1..Len(LocationKeys) : LocationKeys[i] \in DOMAIN last.arguments
    /\ Len(last.calls) >= 1
    /\ last.calls[1].operation_name = "placeList"
    /\ last.calls[1].status = "ok"

PlaceListAnswer == last.calls[1].result["placeList"]

ExistingPlace == PlaceListAnswer["placeList"][1]

\* The three scalar details of the existing place equal the input's.
ScalarDetailsMatch ==
    /\ ExistingPlace["businessName"] = Get(last.arguments, "business_name")
    /\ ExistingPlace["phoneNumber"] = Get(last.arguments, "phone_number")
    /\ ExistingPlace["website"] = Get(last.arguments, "website")

InputTypes == GetD(last.arguments, "types", <<>>)

\* The existing place as get_place hands it out: the same values under
\* snake_case keys.
ExistingPlaceDecamelized ==
    [place_uuid |-> ExistingPlace["placeUuid"],
     region |-> ExistingPlace["region"],
     latitude |-> ExistingPlace["latitude"],
     longitude |-> ExistingPlace["longitude"],
     address |-> ExistingPlace["address"],
     business_name |-> ExistingPlace["businessName"],
     phone_number |-> ExistingPlace["phoneNumber"],
     website |-> ExistingPlace["website"],
     types |-> ExistingPlace["types"]]

ReturnsExistingPlace ==
    /\ IssuedOf("Mutation") = <<>>
    /\ Len(last.calls) = 1
    /\ last.ok
    /\ last.ret = ExistingPlaceDecamelized
    /\ ~last.changed

\* C1 as stated: a location lookup that finds a place with the same
\* business_name, phone_number and website and the same SET of types sends
\* no mutation and returns the existing record.
C1_AsStated ==
    (/\ LocationLookupAnswered
     /\ PlaceListAnswer["total"] > 0
     /\ ScalarDetailsMatch
     /\ SameSet(ExistingPlace["types"], InputTypes))
    => ReturnsExistingPlace

\* C1 (amended): a location lookup that finds a place with the same
\* business_name, phone_number and website and the same types counted with
\* multiplicity, in any order, sends no mutation and returns the existing
\* record, decamelized.
C1_UnchangedPlaceNoMutation ==
    (/\ LocationLookupAnswered
     /\ PlaceListAnswer["total"] > 0
     /\ ScalarDetailsMatch
     /\ SameBag(ExistingPlace["types"], InputTypes))
    => ReturnsExistingPlace

\* The C1 case with the types given in another order than stored.
C1_Witness ==
    /\ LocationLookupAnswered
    /\ PlaceListAnswer["total"] > 0
    /\ ScalarDetailsMatch
    /\ SameBag(ExistingPlace["types"], InputTypes)
    /\ ExistingPlace["types"] # InputTypes
    /\ last.ok

\* C2: a location lookup that finds no place, or a place that differs from
\* the input in business_name, phone_number, website or types, sends
\* exactly one insertUpdatePlace mutation after its one placeList query;
\* the mutation carries the four location fields, businessName,
\* phoneNumber, website, types and updatedBy = "Admin", and carries
\* placeUuid exactly when a place was found, then that place's UUID.
C2_ChangedPlaceOneUpsert ==
    (/\ LocationLookupAnswered
     /\ \/ PlaceListAnswer["total"] = 0
        \/ ~ScalarDetailsMatch
        \/ ~SameBag(ExistingPlace["types"], InputTypes))
    => /\ Len(Issued) = 2
       /\ Len(last.calls) = 2
       /\ Len(IssuedOf("Query")) = 1
       /\ Len(IssuedOf("Mutation")) = 1
       /\ last.calls[2].operation_name = "insertUpdatePlace"
       /\ last.calls[2].operation_type = "Mutation"
       /\ LET v == last.calls[2].variables
              a == last.arguments
          IN  /\ DOMAIN v \ {"placeUuid"} =
                    {"region", "latitude", "longitude", "address",
                     "businessName", "phoneNumber", "website", "types",
                     "updatedBy"}
              /\ v["region"] = a["region"]
              /\ v["latitude"] = a["latitude"]
              /\ v["longitude"] = a["longitude"]
              /\ v["address"] = a["address"]
              /\ v["businessName"] = Get(a, "business_name")
              /\ v["phoneNumber"] = Get(a, "phone_number")
              /\ v["website"] = Get(a, "website")
              /\ v["types"] = InputTypes
              /\ v["updatedBy"] = "Admin"
              /\ ("placeUuid" \in DOMAIN v) <=> (PlaceListAnswer["total"] > 0)
              /\ PlaceListAnswer["total"] > 0
                    => v["placeUuid"] = ExistingPlace["placeUuid"]

\* The C2 case of an existing place updated: the second place of the store
\* is found, differs, and the upsert carries its UUID.
C2_Witness ==
    /\ LocationLookupAnswered
    /\ PlaceListAnswer["total"] > 0
    /\ ~ScalarDetailsMatch
    /\ Len(last.calls) = 2
    /\ last.calls[2].status = "ok"
    /\ last.calls[2].variables["placeUuid"] = "p2"
    /\ last.changed

\* C9: without place_uuid and with one of region, latitude, longitude,
\* address missing, get_place fails with the validation error and makes no
\* GraphQL call.
C9_MissingLocationFails ==
    (/\ last.tool = "get_place"
     /\ "place_uuid" \notin DOMAIN last.arguments
     /\ \E i \in 1..Len(LocationKeys) : LocationKeys[i] \notin DOMAIN last.arguments)
    => /\ ~last.ok
       /\ last.err = "AssertionError"
       /\ last.msg = <<"Missing required arguments">>
       /\ last.calls = <<>>
       /\ ~last.changed

\* The C9 case: only the address is missing, the place of the other three
\* fields exists.
C9_Witness ==
    /\ last.tool = "get_place"
    /\ DOMAIN last.arguments \cap {"place_uuid", "region", "latitude",
                                   "longitude", "address"}
          = {"region", "latitude", "longitude"}
    /\ ~last.ok
    /\ Len(places) > 0

---------------------------------------------------------------------------
(* Contact profiles.                                                       *)

\* The latest invocation was a get_contact_profile whose lookup by email
\* was answered.
ContactLookupAnswered ==
    /\ last.tool = "get_contact_profile"
    /\ "contact" \in DOMAIN last.arguments
    /\ "email" \in DOMAIN last.arguments["contact"]
    /\ Len(last.calls) >= 1
    /\ last.calls[1].operation_name = "contactProfileList"
    /\ last.calls[1].status = "ok"

ContactListAnswer == last.calls[1].result["contactProfileList"]

StoredProfile == ContactListAnswer["contactProfileList"][1]

InputContact == last.arguments["contact"]

\* The place_uuid of the input; an omitted place is no place_uuid.
InputPlaceUuid ==
    IF "place" \in DOMAIN last.arguments
    THEN GetS(last.arguments["place"], "place_uuid")
    ELSE NoneS

\* The input names both names and they, and the place, are the stored ones.
InputIsStoredProfile ==
    /\ "first_name" \in DOMAIN InputContact
    /\ "last_name" \in DOMAIN InputContact
    /\ StoredProfile["firstName"] = InputContact["first_name"]
    /\ StoredProfile["lastName"] = InputContact["last_name"]
    /\ StoredProfile["place"]["placeUuid"] = InputPlaceUuid

\* A profile as the handler hands it out: the same values under snake_case
\* keys, those of the nested place included.
ProfileDecamelized(profile) ==
    [contact_uuid |-> profile["contactUuid"],
     email |-> profile["email"],
     first_name |-> profile["firstName"],
     last_name |-> profile["lastName"],
     place |-> [place_uuid |-> profile["place"]["placeUuid"]],
     data |-> profile["data"]]

\* C3: when the lookup by email finds a record whose first_name, last_name
\* and place_uuid are those of the input (an omitted place being no
\* place_uuid), get_contact_profile sends no mutation and returns the
\* stored record.
C3_UnchangedProfileNoMutation ==
    (/\ ContactLookupAnswered
     /\ ContactListAnswer["total"] > 0
     /\ InputIsStoredProfile)
    => /\ IssuedOf("Mutation") = <<>>
       /\ Len(last.calls) = 1
       /\ last.ok
       /\ last.ret = ProfileDecamelized(StoredProfile)
       /\ ~last.changed

\* The C3 case with a place: the stored profile is associated with the
\* place the input names, and carries collected data.
C3_Witness ==
    /\ ContactLookupAnswered
    /\ ContactListAnswer["total"] > 0
    /\ InputIsStoredProfile
    /\ InputPlaceUuid = PlaceA
    /\ StoredProfile["data"] # EmptyDict
    /\ last.ok

\* The stored profile differs from the input in a name or in the place; a
\* name the input omits is no name.
InputDiffersFromStored ==
    \/ StoredProfile["firstName"] # GetS(InputContact, "first_name")
    \/ StoredProfile["lastName"] # GetS(InputContact, "last_name")
    \/ StoredProfile["place"]["placeUuid"] # InputPlaceUuid

\* C4 as stated: when no record exists for the email, or the stored names
\* or place differ from the input, get_contact_profile sends exactly one
\* insertUpdateContactProfile mutation with updatedBy = "Admin", carrying
\* contactUuid exactly when a record was found (then that record's), and
\* returns the profile the mutation returned.
C4_AsStated ==
    (/\ ContactLookupAnswered
     /\ \/ ContactListAnswer["total"] = 0
        \/ InputDiffersFromStored)
    => /\ Len(last.calls) = 2
       /\ Len(IssuedOf("Mutation")) = 1
       /\ last.calls[2].operation_name = "insertUpdateContactProfile"
       /\ last.calls[2].operation_type = "Mutation"
       /\ last.calls[2].variables["updatedBy"] = "Admin"
       /\ ("contactUuid" \in DOMAIN last.calls[2].variables)
             <=> (ContactListAnswer["total"] > 0)
       /\ ContactListAnswer["total"] > 0
             => last.calls[2].variables["contactUuid"]
                   = StoredProfile["contactUuid"]
       /\ last.calls[2].status = "ok"
             => /\ last.ok
                /\ last.ret = ProfileDecamelized(
                       last.calls[2].result["insertUpdateContactProfile"]["contactProfile"])

\* C5 as stated: a contact that carries only its email does not make
\* get_contact_profile or get_shopify_customer fail on the missing names.
C5_AsStated ==
    (/\ last.tool \in {"get_contact_profile", "get_shopify_customer"}
     /\ "contact" \in DOMAIN last.arguments
     /\ DOMAIN last.arguments["contact"] = {"email"})
    => ~(/\ ~last.ok
         /\ last.err = "KeyError"
         /\ last.msg \in {<<"first_name">>, <<"last_name">>})

---------------------------------------------------------------------------
(* Properties of every tool.                                               *)

UpsertTools == {"get_place", "get_contact_profile", "data_collect"}

OtherTools ==
    {"submit_request", "place_shopify_draft_order", "get_shopify_customer"}

\* No bridge call of the latest invocation raised.
NoCallFailed == \A i \in 1..Len(last.calls) : last.calls[i].status = "ok"

\* C6: an upsert-style tool (get_place by location, get_contact_profile,
\* data_collect) that has succeeded and is invoked again with the same
\* arguments, nothing having changed in between, leaves the store as the
\* first invocation left it, and succeeds again unless a call of the
\* second invocation itself fails in transport.
C6_RepeatedUpsertIdempotent ==
    (/\ last.repeat
     /\ last.first_ok
     /\ last.tool \in UpsertTools
     /\ last.tool = "get_place" => ~Truthy(last.arguments, "place_uuid"))
    => /\ ~last.changed
       /\ NoCallFailed => last.ok

\* The C6 case where the repetition sends its mutation again: a second
\* data_collect, which updates the profile the first one created.
C6_Witness ==
    /\ last.repeat
    /\ last.first_ok
    /\ last.tool = "data_collect"
    /\ Len(last.calls) = 2
    /\ last.calls[2].status = "ok"
    /\ "contactUuid" \in DOMAIN last.calls[2].variables
    /\ last.ok
    /\ Len(contacts) = 1

\* C7 as stated: whichever the tool, an invocation that ends in failure
\* has changed no remote record.
C7_AsStated == ~last.ok => ~last.changed

\* C7 (amended): an invocation of get_place, get_contact_profile,
\* data_collect, submit_request or place_shopify_draft_order that ends in
\* failure has changed no remote record.  An invocation of
\* get_shopify_customer that fails has changed one only when its
\* contact-profile upsert was stored and its Shopify customer query, the
\* call after, then failed.
C7_FailureLeavesStoreExceptCustomer ==
    (~last.ok /\ last.changed)
    => /\ last.tool = "get_shopify_customer"
       /\ Len(last.calls) = 3
       /\ last.calls[2].operation_name = "insertUpdateContactProfile"
       /\ last.calls[2].status = "ok"
       /\ last.calls[3].operation_name = "customer"
       /\ last.calls[3].status # "ok"

\* The C7 case of a single-mutation tool: the mutation of a data_collect
\* fails, the invocation fails, and the profile it would have updated is
\* as it was.
C7_Witness ==
    /\ last.tool = "data_collect"
    /\ ~last.ok
    /\ Len(last.calls) = 2
    /\ last.calls[2].operation_type = "Mutation"
    /\ last.calls[2].status = "exec_failed"
    /\ ~last.changed
    /\ Len(contacts) = 1

\* C8: a schema fetch or GraphQL call that fails is the last call of its
\* invocation (it is not issued again and no other call follows), and the
\* invocation raises a failure whose message names the function and the
\* endpoint id.
C8_FailureNotRetriedNotSwallowed ==
    \A i \in 1..Len(last.calls) :
        last.calls[i].status # "ok"
        => /\ i = Len(last.calls)
           /\ ~last.ok
           /\ last.err = "Exception"
           /\ Len(last.msg) >= 5
           /\ last.msg[2] = last.calls[i].function_name
           /\ last.msg[3] = "/"
           /\ last.msg[4] = last.endpoint_id
           /\ last.calls[i].status = "fetch_failed"
                 => /\ Len(last.msg) >= 9
                    /\ last.msg[7] = last.calls[i].function_name
                    /\ last.msg[9] = last.endpoint_id

\* The C8 case of a late failure: under endpoint "shop1" the third call of
\* a get_shopify_customer, the first of the Shopify function, fails to
\* fetch its schema.
C8_Witness ==
    /\ last.tool = "get_shopify_customer"
    /\ last.endpoint_id = "shop1"
    /\ Len(last.calls) = 3
    /\ last.calls[3].status = "fetch_failed"
    /\ ~last.ok

\* C10 as stated: submit_request with one of its four fields absent fails
\* with a validation error, not with the fault of a key lookup, and makes
\* no GraphQL call; with all four it sends exactly one
\* insertUpdateContactRequest mutation and no query.
C10_AsStated ==
    /\ (/\ last.tool = "submit_request"
        /\ ~HasAll(last.arguments, RequestKeys))
       => /\ ~last.ok
          /\ last.err = "AssertionError"
          /\ last.calls = <<>>
    /\ (/\ last.tool = "submit_request"
        /\ HasAll(last.arguments, RequestKeys))
       => /\ Len(last.calls) = 1
          /\ last.calls[1].operation_name = "insertUpdateContactRequest"
          /\ last.calls[1].operation_type = "Mutation"
          /\ IssuedOf("Query") = <<>>


---------------------------------------------------------------------------
(* data_collect: what it sends and what it returns.                        *)

\* The dataset of the latest invocation, parsed.
InputDataset == JsonLoads(last.arguments["data_collect_dataset"])

\* The latest invocation is a data_collect of a dataset, and none of the
\* bridge calls it made failed.
CollectRan ==
    /\ last.tool = "data_collect"
    /\ "data_collect_dataset" \in DOMAIN last.arguments
    /\ NoCallFailed

\* The first n items of the list l, ", " between each two.
RECURSIVE JoinedUpTo(_, _)
JoinedUpTo(l, n) ==
    IF n = 0 THEN <<>>
    ELSE IF n = 1 THEN l[1].s
    ELSE JoinedUpTo(l, n - 1) \o <<",", " ">> \o l[n].s

\* What a member of the dataset is sent as.
SentValue(member) ==
    IF member.t = "list" THEN JoinedUpTo(member.l, Len(member.l))
    ELSE member.s

\* The keys of the dataset that carry a value.
ValuedKeys == {k \in DOMAIN InputDataset : InputDataset[k].t # "null"}

\* The keys that pass through into `data`.
PassedThrough == ValuedKeys \ (NamedFields \cup {"sales_rep"})

ConfiguredSalesRep == GetD(setting, "sales_rep", DefaultSalesRep)

ConfiguredSalesRepEmail == GetD(setting, "sales_rep_email", DefaultSalesRepEmail)

\* What a named field of the dataset is sent as.
NamedValue(k) ==
    IF k \in ValuedKeys THEN SentValue(InputDataset[k]) ELSE NoneS

\* Some list of the dataset holds an item that is not a string.
HasNumberList ==
    \E k \in DOMAIN InputDataset :
        /\ InputDataset[k].t = "list"
        /\ \E i \in 1..Len(InputDataset[k].l) : InputDataset[k].l[i].t = "num"

\* The lookup by email, then the upsert with the payload as described.
UpsertSentAsDescribed ==
    /\ Len(last.calls) = 2
    /\ last.calls[1].operation_name = "contactProfileList"
    /\ last.calls[1].variables = [email |-> NamedValue("email")]
    /\ last.calls[2].operation_name = "insertUpdateContactProfile"
    /\ last.calls[2].operation_type = "Mutation"
    /\ LET v == last.calls[2].variables
           answer == last.calls[1].result["contactProfileList"]
       IN  /\ DOMAIN v["data"] = PassedThrough \cup {"sales_rep"}
           /\ v["data"]["sales_rep"] = ConfiguredSalesRep
           /\ \A k \in PassedThrough :
                 v["data"][k] = SentValue(InputDataset[k])
           /\ v["placeUuid"] = NamedValue("place_uuid")
           /\ v["email"] = NamedValue("email")
           /\ v["firstName"] = NamedValue("first_name")
           /\ v["lastName"] = NamedValue("last_name")
           /\ ("contactUuid" \in DOMAIN v) <=> (answer["total"] > 0)
           /\ answer["total"] > 0 =>
                 v["contactUuid"] = answer["contactProfileList"][1]["contactUuid"]

\* C11 as stated: a data_collect of a dataset whose bridge calls all answer
\* sends the lookup by email and then the upsert whose `data` is the
\* dataset without its None values and its four named fields, every list
\* joined with ", ", sales_rep the configured one, and which carries
\* contactUuid exactly when the lookup found a record.
C11_AsStated == CollectRan => UpsertSentAsDescribed

\* C11 for datasets whose lists hold strings only: the payload is as
\* described.
C11_PayloadOfStringLists ==
    (CollectRan /\ ~HasNumberList) => UpsertSentAsDescribed

\* A dataset with a None value, a list of two strings, a sales_rep of its
\* own, sent under a configured sales_rep to a store that knows the email.
C11_Witness ==
    /\ CollectRan
    /\ ~HasNumberList
    /\ last.ok
    /\ setting # EmptyDict
    /\ "sales_rep" \in DOMAIN InputDataset
    /\ \E k \in DOMAIN InputDataset : InputDataset[k].t = "null"
    /\ "contactUuid" \in DOMAIN last.calls[2].variables

\* A dataset whose list joins two strings, stored as a new contact.
C11_WitnessList ==
    /\ CollectRan
    /\ last.ok
    /\ \E k \in PassedThrough :
          InputDataset[k].t = "list" /\ Len(InputDataset[k].l) = 2
    /\ "contactUuid" \notin DOMAIN last.calls[2].variables

\* C12: a successful data_collect returns the configured sales_rep and
\* sales_rep_email, the defaults where none is configured: values that the
\* configuration alone decides, so two invocations under one configuration
\* return the same ones whatever their datasets and the store.
C12_ReturnsConfiguredSalesRep ==
    (last.tool = "data_collect" /\ last.ok) =>
        /\ last.ret["sales_rep"] = ConfiguredSalesRep
        /\ last.ret["sales_rep_email"] = ConfiguredSalesRepEmail
        /\ setting = EmptyDict =>
              /\ last.ret["sales_rep"] = DefaultSalesRep
              /\ last.ret["sales_rep_email"] = DefaultSalesRepEmail

\* A dataset with a sales_rep of its own, collected for a contact the store
\* already holds, under a configuration that names the representative but
\* not the email.
C12_Witness ==
    /\ last.tool = "data_collect"
    /\ last.ok
    /\ DOMAIN setting = {"sales_rep"}
    /\ "sales_rep" \in ValuedKeys
    /\ InputDataset["sales_rep"].s # last.ret["sales_rep"]
    /\ last.calls[1].result["contactProfileList"]["total"] > 0
    /\ last.ret["sales_rep_email"] = DefaultSalesRepEmail

---------------------------------------------------------------------------
(* place_shopify_draft_order: the line items.                              *)

\* The latest invocation is a draft order for a contact with an email.
DraftOrderRan ==
    /\ last.tool = "place_shopify_draft_order"
    /\ "contact" \in DOMAIN last.arguments
    /\ "email" \in DOMAIN last.arguments["contact"]

InputItems == GetD(last.arguments, "items", <<>>)

HasDigit(s) == \E i \in 1..Len(s) : s[i] \in Digits

\* r is the first run of consecutive digits of s.
IsFirstRun(r, s) ==
    \E a \in 1..Len(s), b \in 1..Len(s) :
        /\ a <= b
        /\ r = SubSeq(s, a, b)
        /\ \A i \in 1..(a - 1) : s[i] \notin Digits
        /\ \A i \in a..b : s[i] \in Digits
        /\ b = Len(s) \/ s[b + 1] \notin Digits

\* The items that become line items, in the caller's order.
KeptItems ==
    SelectSeq(InputItems,
              LAMBDA item : /\ "variant_id" \in DOMAIN item
                            /\ HasDigit(item["variant_id"]))

\* C13: a draft order for a contact with an email makes one bridge call,
\* the createDraftOrder mutation, whose lineItems are the caller's items
\* that have a variant_id with a digit, in their order, each as the first
\* run of digits of its variant_id with its quantity, 1 when it has none.
C13_LineItemsAreDigitRuns ==
    DraftOrderRan =>
        /\ Len(last.calls) = 1
        /\ last.calls[1].operation_name = "createDraftOrder"
        /\ last.calls[1].operation_type = "Mutation"
        /\ LET sent == last.calls[1].variables["lineItems"]
           IN  /\ Len(sent) = Len(KeptItems)
               /\ \A j \in 1..Len(sent) :
                     /\ DOMAIN sent[j] = {"variant_id", "quantity"}
                     /\ IsFirstRun(sent[j]["variant_id"],
                                   KeptItems[j]["variant_id"])
                     /\ sent[j]["quantity"] =
                           IF "quantity" \in DOMAIN KeptItems[j]
                           THEN KeptItems[j]["quantity"] ELSE 1

\* Four items of which two are kept: a global id with two runs of digits,
\* and a bare number that has no quantity; Shopify created the order.
C13_Witness ==
    /\ DraftOrderRan
    /\ last.ok
    /\ Len(InputItems) = 4
    /\ Len(KeptItems) = 2
    /\ Len(Issued) = 1
    /\ last.calls[1].variables["lineItems"] =
          <<[variant_id |-> <<"1", "2">>, quantity |-> 2],
            [variant_id |-> <<"7">>, quantity |-> 1]>>
    /\ last.ret # NoneD

---------------------------------------------------------------------------
(* get_place by UUID, and the converse of its validation.                  *)

\* The latest invocation is a get_place that names a place_uuid.
PlaceUuidGiven ==
    /\ last.tool = "get_place"
    /\ Truthy(last.arguments, "place_uuid")

\* The record the service holds under the place_uuid given, in snake_case;
\* None when it holds none.
PlaceHeld ==
    LET held == SelectSeq(places,
                    LAMBDA p : p["placeUuid"] = last.arguments["place_uuid"])
    IN  IF held = <<>> THEN NoneD
        ELSE [place_uuid |-> held[1]["placeUuid"],
              region |-> held[1]["region"],
              latitude |-> held[1]["latitude"],
              longitude |-> held[1]["longitude"],
              address |-> held[1]["address"],
              business_name |-> held[1]["businessName"],
              phone_number |-> held[1]["phoneNumber"],
              website |-> held[1]["website"],
              types |-> held[1]["types"]]

\* C14: get_place with a place_uuid makes one bridge call, the `place`
\* query of that UUID: no placeList query and no mutation whatever else is
\* given; when the query answers, the record fetched is returned in
\* snake_case and the store is as it was.
C14_PlaceUuidOneQuery ==
    PlaceUuidGiven =>
        /\ Len(last.calls) = 1
        /\ last.calls[1].operation_name = "place"
        /\ last.calls[1].operation_type = "Query"
        /\ last.calls[1].variables =
              [placeUuid |-> last.arguments["place_uuid"]]
        /\ ~last.changed
        /\ NoCallFailed => (last.ok /\ last.ret = PlaceHeld)

\* A place_uuid of a stored place given on top of a full location and
\* business details that differ from the stored ones.
C14_Witness ==
    /\ PlaceUuidGiven
    /\ last.ok
    /\ \A i \in 1..Len(LocationKeys) : Truthy(last.arguments, LocationKeys[i])
    /\ last.ret # NoneD
    /\ last.ret["website"] # Get(last.arguments, "website")

\* C18 as stated: get_place without place_uuid and with region, latitude,
\* longitude and address all supplied, a latitude or longitude of 0
\* included, raises no validation error and goes on to the placeList query.
C18_AsStated ==
    (/\ last.tool = "get_place"
     /\ "place_uuid" \notin DOMAIN last.arguments
     /\ \A i \in 1..Len(LocationKeys) :
           /\ LocationKeys[i] \in DOMAIN last.arguments
           /\ LocationKeys[i] \in NumberKeys
                 \/ last.arguments[LocationKeys[i]] \notin {"", None})
    => /\ last.err # "AssertionError"
       /\ Len(last.calls) >= 1
       /\ last.calls[1].operation_name = "placeList"

---------------------------------------------------------------------------
(* The schema cache.                                                       *)

\* Call i of the invocation that ends in last' found no schema of its
\* function: the cache held none when the invocation began, and no earlier
\* call of the invocation had stored one.
CacheMiss(i) ==
    /\ last'.calls[i].function_name \notin DOMAIN schemas
    /\ \A j \in 1..(i - 1) :
          last'.calls[j].function_name = last'.calls[i].function_name
             => last'.calls[j].status = "fetch_failed"

\* C15: in every step, a schema the cache holds stays as it is; a bridge
\* call fetches the schema exactly when the cache has none for its
\* function, so a stored schema is never fetched again; a fetch that fails
\* stores nothing, and one that succeeds stores the schema.
C15_FirstResolutionWins ==
    [][/\ \A f \in DOMAIN schemas :
             f \in DOMAIN schemas' /\ schemas'[f] = schemas[f]
       /\ last'.tool # "none" =>
             \A i \in 1..Len(last'.calls) :
                LET c == last'.calls[i]
                IN  /\ c.fetched <=> CacheMiss(i)
                    /\ (CacheMiss(i) /\ c.status = "fetch_failed")
                          => c.function_name \notin DOMAIN schemas'
                    /\ c.status # "fetch_failed"
                          => c.function_name \in DOMAIN schemas'
       /\ last'.tool = "none" => schemas' = schemas]_vars

\* An invocation of two calls on one function: the first fetched the
\* schema, the second found it stored; the other function's schema is
\* stored too.
C15_Witness ==
    /\ Len(last.calls) = 2
    /\ last.calls[1].function_name = last.calls[2].function_name
    /\ last.calls[1].fetched
    /\ ~last.calls[2].fetched
    /\ last.calls[2].status = "ok"
    /\ DOMAIN schemas = FunctionNames

\* C16 as stated: the schema a bridge call resolves for its function under
\* the endpoint_id that is set is one that was fetched under that
\* endpoint_id.
C16_AsStated ==
    \A i \in 1..Len(last.calls) :
        last.calls[i].status # "fetch_failed" =>
            schemas[last.calls[i].function_name].endpoint_id = last.endpoint_id

---------------------------------------------------------------------------
(* The schema cache under concurrent first access.                         *)

\* The schema objects the fetches for function f have returned so far.
FetchedFor(f) ==
    {resolving[t].schema : t \in {u \in Threads :
                                     /\ resolving[u].function_name = f
                                     /\ resolving[u].schema # NoneD}}

\* A schema object with all its parts.
CompleteSchema(x) == DOMAIN x = {"function_name", "endpoint_id", "fetch"}

\* C17: however the threads interleave, the cache holds for a function
\* nothing, or a whole schema object that one of the fetches for that
\* function returned; and a resolution that ended without an exception
\* returned such an object.
C17_CacheNeverCorrupted ==
    /\ \A f \in DOMAIN schemas :
          /\ f \in FunctionNames
          /\ schemas[f] \in FetchedFor(f)
          /\ CompleteSchema(schemas[f])
          /\ schemas[f].function_name = f
    /\ \A t \in Threads :
          resolving[t].pc = "done" =>
              /\ resolving[t].result \in FetchedFor(resolving[t].function_name)
              /\ CompleteSchema(resolving[t].result)

\* Two threads both missed the cache for one function and both fetched: the
\* one that stored first returned the object the other stored over it.
C17_Witness ==
    \E t \in Threads, u \in Threads :
        /\ t # u
        /\ resolving[t].function_name = resolving[u].function_name
        /\ resolving[t].pc = "done"
        /\ resolving[u].pc = "done"
        /\ resolving[t].schema # NoneD
        /\ resolving[u].schema # NoneD
        /\ resolving[t].result = resolving[u].schema
        /\ resolving[u].result = resolving[u].schema
====
